---- MODULE Spec2Model ----
(***************************************************************************)
(* Model of scripts/check-docs-metadata.js: the frontmatter extractor, the *)
(* metadata validator and the batch loop of main.                          *)
(*                                                                         *)
(* Text is modelled as a sequence of one-character strings, so that trim,  *)
(* split, join and the regular expressions of the script are computed      *)
(* character by character, as the script computes them.                    *)
(***************************************************************************)
EXTENDS Integers, Sequences, FiniteSets, TLC

VARIABLES
    file,          \* what the file system holds at filePath: [kind, lines, eol]
    now,           \* wall clock: hours since the epoch, UTC (new Date())
    tz,            \* local UTC offset in hours (local time = UTC + tz)
    frontmatter,   \* last value returned by extractFrontmatter, or NotRun
    result,        \* last value returned by validateMetadata, or NotRun
    pc,            \* position of main: "idle" (not running), "start", "loop", "done"
    changedFiles,  \* main: the candidate list (sequence of file-system entries)
    idx,           \* main: index of the next file of the for-of loop
    invalidFiles,  \* main: indices of the files pushed to invalidFiles
    warningFiles,  \* main: indices of the files pushed to warningFiles
    allValid,      \* main: the allValid flag
    exitCode,      \* main: "running", or "0" / "1" once the process has ended
    checked        \* main: indices of the files validateMetadata was called on, in call order

vars == <<file, now, tz, frontmatter, result, pc, changedFiles, idx,
          invalidFiles, warningFiles, allValid, exitCode, checked>>

mainVars == <<pc, changedFiles, idx, invalidFiles, warningFiles, allValid, exitCode, checked>>

\* "not called yet": a value no call returns
NotRun == <<"NotRun">>

\* the null that extractFrontmatter returns from its catch block
Null == <<"null">>

NoResult == [errors |-> NotRun, warnings |-> NotRun]

---------------------------------------------------------------------------
(* Characters and the string primitives of the JavaScript runtime. *)

Digits == {"0", "1", "2", "3", "4", "5", "6", "7", "8", "9"}

Letters ==
    {"a", "b", "c", "d", "e", "f", "g", "h", "i", "j", "k", "l", "m",
     "n", "o", "p", "q", "r", "s", "t", "u", "v", "w", "x", "y", "z",
     "A", "B", "C", "D", "E", "F", "G", "H", "I", "J", "K", "L", "M",
     "N", "O", "P", "Q", "R", "S", "T", "U", "V", "W", "X", "Y", "Z"}

\* \w of a JavaScript regular expression
WordChars == Letters \cup Digits \cup {"_"}

\* \s of a regular expression, and what String.prototype.trim strips
WhiteSpace == {" ", "\t", "\n", "\r", "\f"}

\* what "." of a regular expression (no s flag) refuses to match
LineTerminators == {"\n", "\r"}

\* the characters the date rule deletes: /['"]/g
QuoteChars == {"'", "\""}

DigitValue(c) ==
    CASE c = "0" -> 0 [] c = "1" -> 1 [] c = "2" -> 2 [] c = "3" -> 3 [] c = "4" -> 4
      [] c = "5" -> 5 [] c = "6" -> 6 [] c = "7" -> 7 [] c = "8" -> 8 [] c = "9" -> 9

\* s.slice(from - 1): the suffix of s that starts at position from
Suffix(s, from) == SubSeq(s, from, Len(s))

\* number of leading characters of s that are in set cs
RECURSIVE LeadingRun(_, _)
LeadingRun(s, cs) ==
    IF s = <<>> \/ Head(s) \notin cs THEN 0 ELSE 1 + LeadingRun(Tail(s), cs)

\* number of trailing characters of s that are in set cs
RECURSIVE TrailingRun(_, _)
TrailingRun(s, cs) ==
    IF s = <<>> \/ s[Len(s)] \notin cs THEN 0
    ELSE 1 + TrailingRun(SubSeq(s, 1, Len(s) - 1), cs)

\* String.prototype.trim
Trim(s) ==
    LET a == LeadingRun(s, WhiteSpace)
    IN  IF a = Len(s) THEN <<>>
        ELSE SubSeq(s, a + 1, Len(s) - TrailingRun(s, WhiteSpace))

\* String.prototype.includes for one character
Includes(s, c) == \E i \in 1..Len(s) : s[i] = c

\* String.prototype.split('\n'): always at least one piece
RECURSIVE SplitFrom(_, _, _)
SplitFrom(s, i, piece) ==
    IF i > Len(s) THEN <<piece>>
    ELSE IF s[i] = "\n" THEN <<piece>> \o SplitFrom(s, i + 1, <<>>)
    ELSE SplitFrom(s, i + 1, Append(piece, s[i]))

Split(s) == SplitFrom(s, 1, <<>>)

\* Array.prototype.join(sep): the empty array joins to the empty string
RECURSIVE Join(_, _)
Join(pieces, sep) ==
    IF pieces = <<>> THEN <<>>
    ELSE IF Len(pieces) = 1 THEN pieces[1]
    ELSE pieces[1] \o sep \o Join(Tail(pieces), sep)

\* s.replace(/['"]/g, ''): every quote character is deleted, wherever it stands
RECURSIVE ReplaceQuotes(_)
ReplaceQuotes(s) ==
    IF s = <<>> THEN <<>>
    ELSE IF Head(s) \in QuoteChars THEN ReplaceQuotes(Tail(s))
    ELSE <<Head(s)>> \o ReplaceQuotes(Tail(s))

---------------------------------------------------------------------------
(* extractFrontmatter *)

Delimiter == <<"-", "-", "-">>

\* line.trim() === '---'
\* (faulty variant: the line is compared without trim)
IsDelimiterUntrimmed(line) == line = Delimiter
IsDelimiter(line) == Trim(line) = Delimiter

\* inFrontmatter && delimiterCount === 1
\* (faulty variant: lines are collected until the closing delimiter, opened or not)
CollectsBeforeOpening(inFrontmatter, delimiterCount) == delimiterCount < 2
Collects(inFrontmatter, delimiterCount) == inFrontmatter /\ delimiterCount = 1

\* the for-of loop over the lines, from line i on
RECURSIVE ScanLines(_, _, _, _, _)
ScanLines(lines, i, inFrontmatter, delimiterCount, frontmatterLines) ==
    IF i > Len(lines) THEN frontmatterLines
    ELSE
        LET line == lines[i]
            count == IF IsDelimiter(line) THEN delimiterCount + 1 ELSE delimiterCount
        IN  IF IsDelimiter(line) /\ count = 1
            THEN ScanLines(lines, i + 1, TRUE, count, frontmatterLines)   \* continue
            ELSE IF IsDelimiter(line) /\ count = 2
            THEN frontmatterLines                                         \* break
            ELSE ScanLines(lines, i + 1, inFrontmatter, count,
                           IF Collects(inFrontmatter, count)
                           THEN Append(frontmatterLines, line)
                           ELSE frontmatterLines)

\* the text of a file: its lines, each but the last followed by the line ending
Content(f) == Join(f.lines, f.eol)

\* fs.readFileSync throws for a missing path and for a directory
extractFrontmatter(f) ==
    IF f.kind # "text" THEN Null
    ELSE Join(ScanLines(Split(Content(f)), 1, FALSE, 0, <<>>), <<"\n">>)

---------------------------------------------------------------------------
(* validateMetadata: parsing of the fields *)

K_tags == <<"t", "a", "g", "s">>
K_date == <<"d", "a", "t", "e">>
K_title == <<"t", "i", "t", "l", "e">>

\* \s*(.*)$ applied to the text after the colon: \s* is greedy and backtracks,
\* (.*) takes no line terminator, $ (no m flag) is the end of the input.
\* The set of lengths of \s* for which the rest matches.
ValueStarts(rest) ==
    {j \in 0..LeadingRun(rest, WhiteSpace) :
        \A k \in (j + 1)..Len(rest) : rest[k] \notin LineTerminators}

Max(S) == CHOOSE x \in S : \A y \in S : y <= x

\* line.match(/^(\w+):\s*(.*)$/): [matched, key (match[1]), value (match[2])]
MatchField(line) ==
    LET w == LeadingRun(line, WordChars)
        rest == Suffix(line, w + 2)
    IN  IF w >= 1 /\ w < Len(line) /\ line[w + 1] = ":" /\ ValueStarts(rest) # {}
        THEN [matched |-> TRUE, key |-> SubSeq(line, 1, w),
              value |-> Suffix(rest, Max(ValueStarts(rest)) + 1)]
        ELSE [matched |-> FALSE, key |-> <<>>, value |-> <<>>]

EmptyMap == [k \in {} |-> <<>>]

MapHas(map, key) == key \in DOMAIN map

\* Map.prototype.set: a later value replaces an earlier one
MapSet(map, key, value) ==
    [k \in DOMAIN map \cup {key} |-> IF k = key THEN value ELSE map[k]]

\* the loop that fills fieldMap, from line i on
RECURSIVE ParseFields(_, _, _)
ParseFields(lines, i, fieldMap) ==
    IF i > Len(lines) THEN fieldMap
    ELSE
        LET match == MatchField(lines[i])
        IN  ParseFields(lines, i + 1,
                        IF match.matched
                        THEN MapSet(fieldMap, match.key, Trim(match.value))
                        ELSE fieldMap)

---------------------------------------------------------------------------
(* validateMetadata: the tags rule *)

\* /^\[\s*\]$/.test(tagsValue)
IsEmptyArray(s) ==
    /\ Len(s) >= 2
    /\ s[1] = "["
    /\ s[Len(s)] = "]"
    /\ \A k \in 2..(Len(s) - 1) : s[k] \in WhiteSpace

\* the issues the tags rule pushes to warnings (it pushes nothing to errors)
TagsWarnings(fieldMap) ==
    IF ~MapHas(fieldMap, K_tags) THEN <<"missing tags">>
    ELSE
        LET tagsValue == fieldMap[K_tags]
        IN  IF ~Includes(tagsValue, "[") THEN <<"tags must be an array">>
            ELSE IF IsEmptyArray(tagsValue) THEN <<"tags array cannot be empty">>
            ELSE <<>>

---------------------------------------------------------------------------
(* validateMetadata: the date rule *)

\* /^\d{4}-\d{2}-\d{2}$/.test(dateValue)
DatePatternTest(s) ==
    /\ Len(s) = 10
    /\ \A k \in {1, 2, 3, 4, 6, 7, 9, 10} : s[k] \in Digits
    /\ s[5] = "-"
    /\ s[8] = "-"

\* days from 1970-01-01 to the first day of month m of year y (proleptic Gregorian)
DaysToMonth(y, m) ==
    LET yy == IF m <= 2 THEN y - 1 ELSE y
        era == yy \div 400
        yoe == yy - era * 400
        mp == IF m > 2 THEN m - 3 ELSE m + 9
        doy == (153 * mp + 2) \div 5
        doe == yoe * 365 + yoe \div 4 - yoe \div 100 + doy
    IN  era * 146097 + doe - 719468

Number2(s, k) == DigitValue(s[k]) * 10 + DigitValue(s[k + 1])

\* new Date("YYYY-MM-DD") in Node (V8): a date-only ISO string is UTC midnight;
\* month 1..12 and day 1..31 are accepted, a day past the end of the month
\* rolls over into the next month, anything else is an Invalid Date (NaN).
\* time is in hours since the epoch.
DateParse(s) ==
    LET y == Number2(s, 1) * 100 + Number2(s, 3)
        m == Number2(s, 6)
        d == Number2(s, 9)
    IN  IF m \in 1..12 /\ d \in 1..31
        THEN [isNaN |-> FALSE, time |-> (DaysToMonth(y, m) + d - 1) * 24]
        ELSE [isNaN |-> TRUE, time |-> 0]

\* today = new Date(); today.setHours(0, 0, 0, 0): midnight of the LOCAL day,
\* as an instant in hours since the epoch
Today(clock, offset) == ((clock + offset) \div 24) * 24 - offset

\* fieldMap.get('date').replace(/['"]/g, '').trim()
DateValue(raw) == Trim(ReplaceQuotes(raw))

\* the body of the else branch at the "Check if date is valid" comment
\* (faulty variant: no else, and the comparison written !(date <= today),
\* which is true of an Invalid Date)
DateValueErrorsNoElse(dateValue, clock, offset) ==
    LET date == DateParse(dateValue)
    IN  (IF date.isNaN THEN <<"invalid date value">> ELSE <<>>)
        \o (IF date.isNaN \/ date.time > Today(clock, offset)
            THEN <<"date cannot be in the future">> ELSE <<>>)
DateValueErrors(dateValue, clock, offset) ==
    LET date == DateParse(dateValue)
    IN  IF date.isNaN THEN <<"invalid date value">>
        ELSE IF date.time > Today(clock, offset)
        THEN <<"date cannot be in the future">>
        ELSE <<>>

\* the issues the date rule pushes to errors
DateErrors(fieldMap, clock, offset) ==
    IF ~MapHas(fieldMap, K_date) THEN <<"missing date">>
    ELSE
        LET dateValue == DateValue(fieldMap[K_date])
        IN  IF ~DatePatternTest(dateValue)
            THEN <<"invalid date format - use YYYY-MM-DD">>
            ELSE DateValueErrors(dateValue, clock, offset)

---------------------------------------------------------------------------
(* validateMetadata: the title rule *)

\* !titleValue || titleValue === '""' || titleValue === "''"
IsEmptyTitle(titleValue) ==
    \/ titleValue = <<>>
    \/ titleValue = <<"\"", "\"">>
    \/ titleValue = <<"'", "'">>

\* the issues the title rule pushes to errors
TitleErrors(fieldMap) ==
    IF ~MapHas(fieldMap, K_title) THEN <<"missing title">>
    ELSE IF IsEmptyTitle(Trim(fieldMap[K_title])) THEN <<"title cannot be empty">>
    ELSE <<>>

---------------------------------------------------------------------------
(* validateMetadata *)

\* fs.existsSync(filePath): true for a file and for a directory
ExistsSync(f) == f.kind # "missing"

\* the rules applied to the extracted frontmatter text
\* (faulty variant: the tags issues are pushed to errors)
TagsInErrors(text, clock, offset) ==
    LET fieldMap == ParseFields(Split(text), 1, EmptyMap)
    IN  [errors   |-> TagsWarnings(fieldMap) \o DateErrors(fieldMap, clock, offset)
                      \o TitleErrors(fieldMap),
         warnings |-> <<>>]
ValidateFrontmatter(text, clock, offset) ==
    LET fieldMap == ParseFields(Split(text), 1, EmptyMap)
    IN  [errors   |-> DateErrors(fieldMap, clock, offset) \o TitleErrors(fieldMap),
         warnings |-> TagsWarnings(fieldMap)]

\* (faulty variant: no fs.existsSync check before the extraction)
NoExistsCheck(f, clock, offset) ==
    IF extractFrontmatter(f) = Null
    THEN [errors |-> <<"cannot read file">>, warnings |-> <<>>]
    ELSE ValidateFrontmatter(extractFrontmatter(f), clock, offset)
validateMetadata(f, clock, offset) ==
    IF ~ExistsSync(f)
    THEN [errors |-> <<"file not found">>, warnings |-> <<>>]
    ELSE IF extractFrontmatter(f) = Null
    THEN [errors |-> <<"cannot read file">>, warnings |-> <<>>]
    ELSE ValidateFrontmatter(extractFrontmatter(f), clock, offset)

---------------------------------------------------------------------------
(* The files the operations are run on. A text file is a sequence of lines   *)
(* and a line ending; a last empty line stands for a final line ending.     *)

LF == <<"\n">>
CRLF == <<"\r", "\n">>

\* date: 2024-01-15
L_date_past == <<"d", "a", "t", "e", ":", " ", "2", "0", "2", "4", "-", "0", "1", "-", "1", "5">>
\* date: 01/15/2024
L_date_slashes == <<"d", "a", "t", "e", ":", " ", "0", "1", "/", "1", "5", "/", "2", "0", "2", "4">>
\* date: 2024-'01-15
L_date_inner_quote == <<"d", "a", "t", "e", ":", " ", "2", "0", "2", "4", "-", "'", "0", "1", "-", "1", "5">>
\* date: 2024-13-01
L_date_month13 == <<"d", "a", "t", "e", ":", " ", "2", "0", "2", "4", "-", "1", "3", "-", "0", "1">>
\* date: 2024-01-19
L_date_future == <<"d", "a", "t", "e", ":", " ", "2", "0", "2", "4", "-", "0", "1", "-", "1", "9">>
\* date:
L_date_blank == <<"d", "a", "t", "e", ":">>
\* date: "2024-01-15"
L_date_quoted == <<"d", "a", "t", "e", ":", " ", "\"", "2", "0", "2", "4", "-", "0", "1", "-", "1", "5", "\"">>
\* date: invalid-date
L_date_invalid == <<"d", "a", "t", "e", ":", " ", "i", "n", "v", "a", "l", "i", "d", "-", "d", "a", "t", "e">>
\* title: T
L_title == <<"t", "i", "t", "l", "e", ":", " ", "T">>
\* title: ""
L_title_quotes == <<"t", "i", "t", "l", "e", ":", " ", "\"", "\"">>
\* tags: ["a"]
L_tags == <<"t", "a", "g", "s", ":", " ", "[", "\"", "a", "\"", "]">>
\* tags: [ ]
L_tags_empty == <<"t", "a", "g", "s", ":", " ", "[", " ", "]">>
\* tags: a
L_tags_scalar == <<"t", "a", "g", "s", ":", " ", "a">>
\* # x
L_heading == <<"#", " ", "x">>
\*  --- 
L_padded_delimiter == <<" ", "-", "-", "-", " ">>
\* date: 2024-01-16
L_date_16 == <<"d", "a", "t", "e", ":", " ", "2", "0", "2", "4", "-", "0", "1", "-", "1", "6">>
\* date: 2024-01-17
L_date_17 == <<"d", "a", "t", "e", ":", " ", "2", "0", "2", "4", "-", "0", "1", "-", "1", "7">>
\* date: 2024-01-18
L_date_18 == <<"d", "a", "t", "e", ":", " ", "2", "0", "2", "4", "-", "0", "1", "-", "1", "8">>
\* date: 2024-02-30
L_date_feb30 == <<"d", "a", "t", "e", ":", " ", "2", "0", "2", "4", "-", "0", "2", "-", "3", "0">>


\* bounds of the model
MaxFields == 2
MaxLines == 4
MaxFiles == 3
MaxTicks == 8

SeqsUpTo(S, n) == UNION {[1..k -> S] : k \in 0..n}

TextFile(lines, eol) == [kind |-> "text", lines |-> lines, eol |-> eol]

\* a path that does not exist, and a path that is a directory
MissingFile == [kind |-> "missing", lines |-> <<>>, eol |-> LF]
Directory == [kind |-> "directory", lines |-> <<>>, eol |-> LF]

FieldLines ==
    {L_date_past, L_date_slashes, L_date_inner_quote, L_date_month13, L_date_future,
     L_date_blank, L_date_quoted, L_title, L_title_quotes,
     L_tags, L_tags_empty, L_tags_scalar, L_heading}

\* files with a frontmatter block of up to MaxFields lines
FrontmatterFiles ==
    {TextFile(<<Delimiter>> \o fields \o <<Delimiter, <<>>>>, eol) :
        fields \in SeqsUpTo(FieldLines, MaxFields), eol \in {LF, CRLF}}

RawLines == {Delimiter, L_padded_delimiter, L_title, L_date_past}

\* files of up to MaxLines arbitrary lines: no, one or several delimiter lines
RawFiles ==
    {TextFile(lines, eol) :
        lines \in SeqsUpTo(RawLines, MaxLines) \ {<<>>}, eol \in {LF, CRLF}}

\* the files of tests/docs-metadata.test.js
ValidFixture ==
    TextFile(<<Delimiter, L_title, L_date_past, L_tags, Delimiter, <<>>, L_heading, <<>>>>, LF)
MultipleIssuesFixture ==
    TextFile(<<Delimiter, L_date_invalid, Delimiter, <<>>, L_heading, <<>>>>, LF)
NoFrontmatterFixture == TextFile(<<L_heading>>, LF)
NoTagsFixture ==
    TextFile(<<Delimiter, L_title, L_date_past, Delimiter, <<>>, L_heading, <<>>>>, LF)

Fixtures ==
    {ValidFixture, MultipleIssuesFixture, NoFrontmatterFixture, NoTagsFixture,
     [ValidFixture EXCEPT !.eol = CRLF]}

Files == FrontmatterFiles \cup RawFiles \cup Fixtures \cup {MissingFile, Directory}

\* 2024-01-16T00:00Z in hours since the epoch
Day16 == (DaysToMonth(2024, 1) + 15) * 24

\* [now, tz]: 2024-01-16T03:00Z seen from UTC-5, 2024-01-16T21:00Z seen from UTC+5
Clocks == {[now |-> Day16 + 3, tz |-> -5], [now |-> Day16 + 21, tz |-> 5]}

---------------------------------------------------------------------------
(* One file, one call: extractFrontmatter(filePath), validateMetadata(filePath) *)

MainIdle ==
    /\ pc = "idle"
    /\ changedFiles = <<>>
    /\ idx = 1
    /\ invalidFiles = <<>>
    /\ warningFiles = <<>>
    /\ allValid = TRUE
    /\ exitCode = "running"
    /\ checked = <<>>

Init ==
    /\ file \in Files
    /\ \E c \in Clocks : now = c.now /\ tz = c.tz
    /\ frontmatter = NotRun
    /\ result = NoResult
    /\ MainIdle

\* a caller (the test suite) calls extractFrontmatter on the file
ExtractFrontmatter ==
    /\ pc = "idle"
    /\ frontmatter = NotRun
    /\ frontmatter' = extractFrontmatter(file)
    /\ UNCHANGED <<file, now, tz, result, mainVars>>

\* a caller calls validateMetadata on the file; the call runs extractFrontmatter
\* itself once the path is known to exist
ValidateMetadata ==
    /\ pc = "idle"
    /\ result = NoResult
    /\ result' = validateMetadata(file, now, tz)
    /\ frontmatter' = IF ExistsSync(file) THEN extractFrontmatter(file) ELSE frontmatter
    /\ UNCHANGED <<file, now, tz, mainVars>>

Next == ExtractFrontmatter \/ ValidateMetadata

Spec == Init /\ [][Next]_vars

---------------------------------------------------------------------------
(* Vocabulary of the properties *)

Min(S) == CHOOSE x \in S : \A y \in S : x <= y

InSeq(x, seq) == \E i \in 1..Len(seq) : seq[i] = x

CountIn(seq, S) == Cardinality({i \in 1..Len(seq) : seq[i] \in S})

TagsCodes == {"missing tags", "tags must be an array", "tags array cannot be empty"}
DateCodes == {"missing date", "invalid date format - use YYYY-MM-DD",
              "invalid date value", "date cannot be in the future"}
TitleCodes == {"missing title", "title cannot be empty"}

Validated == result # NoResult
Extracted == frontmatter # NotRun
IsText == file.kind = "text"

\* the lines of the file as they stand on disk: with CRLF endings every line
\* but the last keeps its carriage return once the text is cut at "\n"
LinesOnDisk(f) ==
    [i \in 1..Len(f.lines) |->
        IF f.eol = CRLF /\ i < Len(f.lines) THEN f.lines[i] \o <<"\r">> ELSE f.lines[i]]

\* positions of the lines whose trimmed content is ---
DelimiterLines(f) == {i \in 1..Len(f.lines) : Trim(f.lines[i]) = Delimiter}

OpeningLine(f) == Min(DelimiterLines(f))

\* position of the closing delimiter, or one past the end when there is none
ClosingLine(f) ==
    LET later == {i \in DelimiterLines(f) : i > OpeningLine(f)}
    IN  IF later = {} THEN Len(f.lines) + 1 ELSE Min(later)

\* positions of the lines of the frontmatter block
BlockLines(f) ==
    IF DelimiterLines(f) = {} THEN {}
    ELSE {i \in 1..Len(f.lines) : OpeningLine(f) < i /\ i < ClosingLine(f)}

\* the block as the specification describes it
ExpectedFrontmatter(f) ==
    IF DelimiterLines(f) = {} THEN <<>>
    ELSE Join(SubSeq(LinesOnDisk(f), OpeningLine(f) + 1, ClosingLine(f) - 1), LF)

\* the key a line shows to a reader: word characters followed by a colon
KeyOfLine(line) ==
    LET w == LeadingRun(line, WordChars)
    IN  IF w >= 1 /\ w < Len(line) /\ line[w + 1] = ":" THEN SubSeq(line, 1, w) ELSE <<>>

\* the field map validateMetadata builds for a text file
FieldMapOf(f) == ParseFields(Split(extractFrontmatter(f)), 1, EmptyMap)

\* a file with line i replaced
WithLine(f, i, line) == [f EXCEPT !.lines[i] = line]

\* the lines of s at the positions of set keep, in order
RECURSIVE KeepLines(_, _, _)
KeepLines(lines, i, keep) ==
    IF i > Len(lines) THEN <<>>
    ELSE (IF i \in keep THEN <<lines[i]>> ELSE <<>>) \o KeepLines(lines, i + 1, keep)

\* positions of the block lines that show key and are followed, in the block,
\* by another line that shows it
EarlierOccurrences(f, key) ==
    {i \in BlockLines(f) :
        /\ KeyOfLine(f.lines[i]) = key
        /\ \E j \in BlockLines(f) : j > i /\ KeyOfLine(f.lines[j]) = key}

\* the file with every earlier occurrence of key removed
WithoutEarlier(f, key) ==
    [f EXCEPT !.lines = KeepLines(f.lines, 1, (1..Len(f.lines)) \ EarlierOccurrences(f, key))]

\* a value with the quote characters and whitespace at its two ends taken off
StripSurrounding(v) ==
    LET a == LeadingRun(v, QuoteChars \cup WhiteSpace)
    IN  IF a = Len(v) THEN <<>>
        ELSE SubSeq(v, a + 1, Len(v) - TrailingRun(v, QuoteChars \cup WhiteSpace))

HasInteriorQuote(v) == \E i \in 1..Len(StripSurrounding(v)) : StripSurrounding(v)[i] \in QuoteChars

---------------------------------------------------------------------------
(* Properties of extractFrontmatter and validateMetadata, checked under Spec *)

\* C1: on a readable file extractFrontmatter returns exactly the lines strictly
\* after the first delimiter line and strictly before the next one (or the end
\* of the file), joined by newline, whatever delimiter lines follow.
C1_ExtractReturnsBlock ==
    (Extracted /\ IsText) => frontmatter = ExpectedFrontmatter(file)

\* a file with three delimiter lines and a non-empty block has been extracted
C1_Witness ==
    /\ Extracted
    /\ IsText
    /\ Cardinality(DelimiterLines(file)) >= 3
    /\ frontmatter # <<>>

\* C2: validateMetadata short-circuits on file problems: a missing path gives
\* exactly ["file not found"], a path that cannot be read gives exactly
\* ["cannot read file"], both with no warning and no field issue.
C2_ShortCircuit ==
    Validated =>
        /\ file.kind = "missing" =>
              result = [errors |-> <<"file not found">>, warnings |-> <<>>]
        /\ file.kind = "directory" =>
              result = [errors |-> <<"cannot read file">>, warnings |-> <<>>]

\* both short-circuits are reached: here the missing path
C2_Witness ==
    /\ Validated
    /\ file.kind = "missing"
    /\ result.errors = <<"file not found">>

C6_ResultShape ==
    (Validated /\ IsText) =>
        /\ Len(result.warnings) <= 1
        /\ \A i \in 1..Len(result.warnings) : result.warnings[i] \in TagsCodes
        /\ \A i \in 1..Len(result.errors) : result.errors[i] \in DateCodes \cup TitleCodes
        /\ CountIn(result.errors, DateCodes) <= 1
        /\ CountIn(result.errors, TitleCodes) <= 1
        /\ \A i, j \in 1..Len(result.errors) :
              (result.errors[i] \in DateCodes /\ result.errors[j] \in TitleCodes) => i < j
        /\ \A i \in BlockLines(file) :
              KeyOfLine(file.lines[i]) = K_tags =>
                 \A other \in {L_tags, L_tags_empty, L_tags_scalar} :
                    validateMetadata(WithLine(file, i, other), now, tz).errors = result.errors

\* a file with a tags line was validated and got a warning, a date error and a title error
C6_Witness ==
    /\ Validated
    /\ IsText
    /\ \E i \in BlockLines(file) : KeyOfLine(file.lines[i]) = K_tags
    /\ Len(result.warnings) = 1
    /\ CountIn(result.errors, DateCodes) = 1
    /\ CountIn(result.errors, TitleCodes) = 1

\* C7: for a readable file with no delimiter line extractFrontmatter returns
\* the empty string and validateMetadata reports "missing date" and "missing
\* title" and warns exactly "missing tags", whatever key: value lines it holds.
C7_NoDelimiter ==
    (IsText /\ DelimiterLines(file) = {}) =>
        /\ Extracted => frontmatter = <<>>
        /\ Validated =>
              /\ InSeq("missing date", result.errors)
              /\ InSeq("missing title", result.errors)
              /\ result.warnings = <<"missing tags">>

\* a file without delimiter that holds a date line and a title line was validated
C7_Witness ==
    /\ Validated
    /\ Extracted
    /\ IsText
    /\ DelimiterLines(file) = {}
    /\ InSeq(L_date_past, file.lines)
    /\ InSeq(L_title, file.lines)

\* C8 as stated: a date value with a quote character in its interior yields
\* the error "invalid date format - use YYYY-MM-DD".
C8_InteriorQuoteRejected ==
    (/\ Validated
     /\ IsText
     /\ MapHas(FieldMapOf(file), K_date)
     /\ HasInteriorQuote(FieldMapOf(file)[K_date]))
    => InSeq("invalid date format - use YYYY-MM-DD", result.errors)

\* C9 as stated: a file written with CRLF line endings yields the same errors
\* and warnings as the same file written with LF line endings.
C9_LineEndingsAgree ==
    (Validated /\ IsText) => result = validateMetadata([file EXCEPT !.eol = LF], now, tz)

\* C10 as stated: when a key occurs on several lines of the block, the result
\* is that of the same file with every earlier occurrence of the key removed.
C10_LastOccurrenceWins ==
    (Validated /\ IsText) =>
        \A key \in {K_tags, K_date, K_title} :
            result = validateMetadata(WithoutEarlier(file, key), now, tz)

---------------------------------------------------------------------------
(* The date rule against the wall clock: the clock runs, then the file is    *)
(* validated.                                                                *)

\* files that are valid but for their date
DateFiles ==
    {TextFile(<<Delimiter, L_title, d, L_tags, Delimiter, <<>>>>, LF) :
        d \in {L_date_past, L_date_16, L_date_17, L_date_18, L_date_feb30}}

\* local UTC offsets, in hours
TzOffsets == {-8, 0, 5}

InitDate ==
    /\ file \in DateFiles
    /\ now = Day16
    /\ tz \in TzOffsets
    /\ frontmatter = NotRun
    /\ result = NoResult
    /\ MainIdle

\* six hours pass before validateMetadata is called
Tick ==
    /\ pc = "idle"
    /\ result = NoResult
    /\ now < Day16 + MaxTicks * 6
    /\ now' = now + 6
    /\ UNCHANGED <<file, tz, frontmatter, result, mainVars>>

NextDate == Tick \/ ValidateMetadata

SpecDate == InitDate /\ [][NextDate]_vars

\* the calendar date of the local clock, in days since the epoch
LocalDay(clock, offset) == (clock + offset) \div 24

\* C3 as stated: a well-formed, parseable date is reported as being in the
\* future exactly when it is strictly after the current calendar date,
\* whatever the time of day and the local UTC offset.
C3_FutureIffAfterToday ==
    (/\ Validated
     /\ IsText
     /\ MapHas(FieldMapOf(file), K_date)
     /\ DatePatternTest(DateValue(FieldMapOf(file)[K_date]))
     /\ ~DateParse(DateValue(FieldMapOf(file)[K_date])).isNaN)
    => (InSeq("date cannot be in the future", result.errors)
          <=> DateParse(DateValue(FieldMapOf(file)[K_date])).time \div 24 > LocalDay(now, tz))

---------------------------------------------------------------------------
(* main: the batch over the candidate list *)

\* what the candidate paths lead to: a missing path, a directory, a valid
\* file, a file with a warning only, a file with errors and a warning
Candidates ==
    {MissingFile, Directory, ValidFixture, NoTagsFixture, MultipleIssuesFixture}

InitMain ==
    /\ changedFiles \in SeqsUpTo(Candidates, MaxFiles)
    /\ \E c \in Clocks : now = c.now /\ tz = c.tz
    /\ file = MissingFile
    /\ frontmatter = NotRun
    /\ result = NoResult
    /\ pc = "start"
    /\ idx = 1
    /\ invalidFiles = <<>>
    /\ warningFiles = <<>>
    /\ allValid = TRUE
    /\ exitCode = "running"
    /\ checked = <<>>

\* if (changedFiles.length === 0) { ...; return }
MainStart ==
    /\ pc = "start"
    /\ IF Len(changedFiles) = 0
       THEN pc' = "done" /\ exitCode' = "0"
       ELSE pc' = "loop" /\ exitCode' = exitCode
    /\ UNCHANGED <<file, now, tz, frontmatter, result, changedFiles, idx,
                   invalidFiles, warningFiles, allValid, checked>>

\* if (errors.length > 0) { ...; allValid = false }
\* (faulty variant: a warning clears allValid too)
AllValidAfterAnyIssue(valid, r) ==
    IF Len(r.errors) > 0 \/ Len(r.warnings) > 0 THEN FALSE ELSE valid
AllValidAfter(valid, r) == IF Len(r.errors) > 0 THEN FALSE ELSE valid

\* one turn of the for-of loop over changedFiles
MainCheckFile ==
    /\ pc = "loop"
    /\ idx <= Len(changedFiles)
    /\ LET r == validateMetadata(changedFiles[idx], now, tz)
       IN  /\ result' = r
           /\ invalidFiles' = IF Len(r.errors) > 0
                              THEN Append(invalidFiles, [file |-> idx, issues |-> r.errors])
                              ELSE invalidFiles
           /\ allValid' = AllValidAfter(allValid, r)
           /\ warningFiles' = IF Len(r.warnings) > 0
                              THEN Append(warningFiles, [file |-> idx, issues |-> r.warnings])
                              ELSE warningFiles
    /\ file' = changedFiles[idx]
    /\ frontmatter' = IF ExistsSync(changedFiles[idx])
                      THEN extractFrontmatter(changedFiles[idx]) ELSE frontmatter
    /\ checked' = Append(checked, idx)
    /\ idx' = idx + 1
    /\ UNCHANGED <<now, tz, pc, changedFiles, exitCode>>

\* after the loop: if (!allValid) { ...; process.exit(1) }, else main returns
MainSummary ==
    /\ pc = "loop"
    /\ idx > Len(changedFiles)
    /\ pc' = "done"
    /\ exitCode' = IF ~allValid THEN "1" ELSE "0"
    /\ UNCHANGED <<file, now, tz, frontmatter, result, changedFiles, idx,
                   invalidFiles, warningFiles, allValid, checked>>

NextMain == MainStart \/ MainCheckFile \/ MainSummary

SpecMain == InitMain /\ [][NextMain]_vars

\* C5: main validates every file of the list, in list order, whatever the
\* earlier files produced; it ends only after the last file, and with exit
\* code 1 exactly when some file had errors: warnings alone never fail it.
C5_BatchRunsToTheEnd ==
    /\ checked = [i \in 1..(idx - 1) |-> i]
    /\ exitCode # "running" => (pc = "done" /\ Len(checked) = Len(changedFiles))
    /\ pc = "done" =>
          /\ exitCode \in {"0", "1"}
          /\ exitCode = "1" <=>
                \E i \in 1..Len(changedFiles) :
                    validateMetadata(changedFiles[i], now, tz).errors # <<>>

\* a batch whose first path could not be read and whose last file has only a
\* warning ran to the end and failed
C5_Witness ==
    /\ pc = "done"
    /\ exitCode = "1"
    /\ Len(changedFiles) = 3
    /\ changedFiles[1] = Directory
    /\ changedFiles[3] = NoTagsFixture
    /\ checked = <<1, 2, 3>>

====
